---- MODULE Spec2Model ----
(***************************************************************************)
(* PEFT -> candle-lora checkpoint conversion (candle-lora/src/             *)
(* peft_convert.rs).  Tensor names are strings, handled character by       *)
(* character as the Rust str methods handle them; a checkpoint is a        *)
(* mapping from tensor names to tensors; one behaviour is one call of one  *)
(* of the four public entry points on a file system fixed by Init.         *)
(***************************************************************************)
EXTENDS Integers, Sequences, FiniteSets, TLC

VARIABLES
    files,      \* the PEFT directory: file name -> what the path holds
    output,     \* what output_path holds
    loaded,     \* the sequence of file names handed to safetensors::load
    call,       \* the entry point that ran and its arguments, or NoCall
    result,     \* what the call returned: NoResult, Ok or Err(msg)
    lora_pairs, \* the Vec lora_pairs as the extraction loop left it
    layer_name, \* a layer name handed to from_peft_layer_name on its own
    prefix_type \* what from_peft_layer_name returned for it

vars == <<files, output, loaded, call, result, lora_pairs, layer_name, prefix_type>>

-----------------------------------------------------------------------------
(* Bounds of the model *)

\* the largest number of tensors in a source checkpoint
MaxKeys == 4

\* the largest number of tensors in a checkpoint of a PEFT directory
MaxDirKeys == 2

\* the largest number of dot-separated segments of a layer name that is
\* classified on its own
MaxSegments == 3

-----------------------------------------------------------------------------
(* Strings: the str methods the conversion uses *)

\* the characters of the names, in byte order (str's Ord compares bytes)
ByteOrder == ".0123456789AB_abcdefghijklmnopqrstuvwxyz"

Byte(c) == CHOOSE i \in 1..Len(ByteOrder) : SubSeq(ByteOrder, i, i) = c

\* str::starts_with
starts_with(s, pat) ==
    Len(pat) <= Len(s) /\ SubSeq(s, 1, Len(pat)) = pat

\* str::contains
contains(s, pat) ==
    \E i \in 1..(Len(s) - Len(pat) + 1) : SubSeq(s, i, i + Len(pat) - 1) = pat

\* str::replace(pat, ""): the non-overlapping matches, left to right, are
\* removed; the result is not scanned again
RECURSIVE replace_with_empty(_, _)
replace_with_empty(s, pat) ==
    IF Len(s) < Len(pat) THEN s
    ELSE IF SubSeq(s, 1, Len(pat)) = pat
         THEN replace_with_empty(SubSeq(s, Len(pat) + 1, Len(s)), pat)
         ELSE SubSeq(s, 1, 1) \o replace_with_empty(SubSeq(s, 2, Len(s)), pat)

\* String's Ord (a.0.cmp(&b.0) is Less): lexicographic on bytes, a proper
\* prefix is smaller
cmp_less(s, t) ==
    LET n == IF Len(s) < Len(t) THEN Len(s) ELSE Len(t)
        differ == {i \in 1..n : SubSeq(s, i, i) # SubSeq(t, i, i)}
    IN  IF differ = {}
        THEN Len(s) < Len(t)
        ELSE LET i == CHOOSE j \in differ : \A k \in differ : j <= k
             IN  Byte(SubSeq(s, i, i)) < Byte(SubSeq(t, i, i))

-----------------------------------------------------------------------------
(* Tensors and checkpoints *)

\* Tensor::zeros(shape, DType::F32, device)
zeros(shape) == [dtype |-> "F32", shape |-> shape, data |-> "zeros"]

\* a tensor of a source checkpoint: its data is named after the key it is
\* stored under, so that a copy of it is told from every other tensor
SourceTensor(key) == [dtype |-> "F32", shape |-> <<16, 128>>, data |-> key]

\* HashMap::new()
EmptyMap == [k \in {} |-> zeros(<<>>)]

\* HashMap::insert: a present key is overwritten
insert(map, key, tensor) ==
    [k \in (DOMAIN map) \cup {key} |-> IF k = key THEN tensor ELSE map[k]]

\* what a path holds: no file, a safetensors checkpoint, or a text
NoFile == [exists |-> FALSE, tensors |-> EmptyMap, text |-> ""]
File(tensors) == [exists |-> TRUE, tensors |-> tensors, text |-> ""]
TextFile(text) == [exists |-> TRUE, tensors |-> EmptyMap, text |-> text]

-----------------------------------------------------------------------------
(* CandleLoraPrefix *)

Llama == "Llama"
LlamaCsa == "LlamaCsa"
LlamaBlock == "LlamaBlock"

CandleLoraPrefix == {Llama, LlamaCsa, LlamaBlock}

as_str(prefix) ==
    CASE prefix = Llama -> "lora_llama"
      [] prefix = LlamaCsa -> "lora_llama_csa"
      [] prefix = LlamaBlock -> "lora_llama_block"

\* from_peft_layer_name with the attention test ahead of the embedding test
from_peft_layer_name_attention_first(n) ==
    IF /\ contains(n, "self_attn")
       /\ \/ contains(n, "q_proj")
          \/ contains(n, "k_proj")
          \/ contains(n, "v_proj")
          \/ contains(n, "o_proj")
    THEN LlamaCsa
    ELSE IF contains(n, "embed_tokens") \/ contains(n, "lm_head")
         THEN Llama
         ELSE LlamaBlock

from_peft_layer_name(n) ==
    IF contains(n, "embed_tokens") \/ contains(n, "lm_head")
    THEN Llama
    ELSE IF /\ contains(n, "self_attn")
            /\ \/ contains(n, "q_proj")
               \/ contains(n, "k_proj")
               \/ contains(n, "v_proj")
               \/ contains(n, "o_proj")
         THEN LlamaCsa
         ELSE LlamaBlock

-----------------------------------------------------------------------------
(* Pair extraction and renaming *)

\* the test that selects a key in the extraction loop
is_lora_a_key(key) == contains(key, ".lora_A.weight")

\* let base_name = name.replace(".lora_A.weight", "")
base_name_of(key) == replace_with_empty(key, ".lora_A.weight")

\* format!("{}.lora_B.weight", base_name)
b_name_of(base_name) == base_name \o ".lora_B.weight"

\* the loop over peft_tensors.iter(): `order` is the order in which the
\* HashMap yields its keys, `pairs` and `processed` are lora_pairs and
\* processed_keys so far
RECURSIVE group_lora_pairs(_, _, _, _)
group_lora_pairs(peft_tensors, order, pairs, processed) ==
    IF order = <<>> THEN pairs
    ELSE LET key == Head(order)
             base_name == base_name_of(key)
             b_name == b_name_of(base_name)
         IN  IF /\ is_lora_a_key(key)
                /\ key \notin processed
                /\ b_name \in DOMAIN peft_tensors
             THEN group_lora_pairs(
                      peft_tensors, Tail(order),
                      Append(pairs, <<base_name, peft_tensors[key], peft_tensors[b_name]>>),
                      processed \cup {key, b_name})
             ELSE group_lora_pairs(peft_tensors, Tail(order), pairs, processed)

\* one element put into a sorted Vec behind the elements that are not
\* greater: sort_by and sort_by_key are stable
RECURSIVE sorted_insert(_, _)
sorted_insert(sorted, pair) ==
    IF sorted = <<>> THEN <<pair>>
    ELSE IF cmp_less(pair[1], Head(sorted)[1])
         THEN <<pair>> \o sorted
         ELSE <<Head(sorted)>> \o sorted_insert(Tail(sorted), pair)

\* lora_pairs.sort_by(|a, b| a.0.cmp(&b.0)) and sort_by_key(|(key, _, _)| *key)
RECURSIVE sort_by_key(_)
sort_by_key(pairs) ==
    IF pairs = <<>> THEN <<>>
    ELSE sorted_insert(sort_by_key(SubSeq(pairs, 1, Len(pairs) - 1)), pairs[Len(pairs)])

\* format!("{}.a{}.weight", prefix, idx) and its b twin
a_name_of(prefix, idx) == prefix \o ".a" \o ToString(idx) \o ".weight"
b_weight_name_of(prefix, idx) == prefix \o ".b" \o ToString(idx) \o ".weight"

\* the loop that numbers the pairs of one Vec under one prefix, the counter
\* starting at 0: the enumerate() loop of the untyped conversion and the
\* closure process_group of the typed one
RECURSIVE process_group(_, _, _)
process_group(candle_tensors, weights, prefix) ==
    IF weights = <<>> THEN candle_tensors
    ELSE LET counter == Len(weights) - 1
             pair == weights[Len(weights)]
             before == process_group(candle_tensors, SubSeq(weights, 1, counter), prefix)
         IN  insert(insert(before, a_name_of(prefix, counter), pair[2]),
                    b_weight_name_of(prefix, counter), pair[3])

-----------------------------------------------------------------------------
(* The conversions, from the loaded tensors to the tensors that are saved *)

\* convert_peft_to_candle_lora: lora_pairs after the loop and the sort
untyped_lora_pairs(peft_tensors, order) ==
    sort_by_key(group_lora_pairs(peft_tensors, order, <<>>, {}))

\* convert_peft_to_candle_lora: candle_tensors after the enumerate() loop
untyped_candle_tensors(pairs, prefix) ==
    process_group(EmptyMap, pairs, prefix)

\* convert_peft_to_candle_lora_typed: lora_pairs after the loop (not sorted)
typed_lora_pairs(peft_tensors, order) ==
    group_lora_pairs(peft_tensors, order, <<>>, {})

\* llama_weights, llama_csa_weights or llama_block_weights: the pairs of one
\* prefix type in the order of lora_pairs, then sorted
weights_of(pairs, prefix) ==
    sort_by_key(SelectSeq(pairs, LAMBDA p : from_peft_layer_name(p[1]) = prefix))

\* process_group with the counter starting at `start`
RECURSIVE process_group_from(_, _, _, _)
process_group_from(candle_tensors, weights, prefix, start) ==
    IF weights = <<>> THEN candle_tensors
    ELSE LET last == Len(weights)
             pair == weights[last]
             before == process_group_from(candle_tensors, SubSeq(weights, 1, last - 1),
                                          prefix, start)
         IN  insert(insert(before, a_name_of(prefix, start + last - 1), pair[2]),
                    b_weight_name_of(prefix, start + last - 1), pair[3])

\* grouped_candle_tensors with one counter that runs on from group to group
grouped_candle_tensors_one_counter(pairs) ==
    LET llama_weights == weights_of(pairs, Llama)
        llama_csa_weights == weights_of(pairs, LlamaCsa)
        llama_block_weights == weights_of(pairs, LlamaBlock)
        t1 == process_group_from(EmptyMap, llama_weights, as_str(Llama), 0)
        t2 == process_group_from(t1, llama_csa_weights, as_str(LlamaCsa),
                                 Len(llama_weights))
    IN  process_group_from(t2, llama_block_weights, as_str(LlamaBlock),
                           Len(llama_weights) + Len(llama_csa_weights))

\* candle_tensors after the three guarded process_group calls
grouped_candle_tensors(pairs) ==
    LET llama_weights == weights_of(pairs, Llama)
        llama_csa_weights == weights_of(pairs, LlamaCsa)
        llama_block_weights == weights_of(pairs, LlamaBlock)
        t1 == IF llama_weights # <<>>
              THEN process_group(EmptyMap, llama_weights, as_str(Llama))
              ELSE EmptyMap
        t2 == IF llama_csa_weights # <<>>
              THEN process_group(t1, llama_csa_weights, as_str(LlamaCsa))
              ELSE t1
    IN  IF llama_block_weights # <<>>
        THEN process_group(t2, llama_block_weights, as_str(LlamaBlock))
        ELSE t2

\* default sizes of the dummy embedding tensors
vocab_size == 32000
hidden_size == 2048
rank == 4

\* has_llama_tensors with the dot left out of the prefix
has_llama_tensors_no_dot(candle_tensors) ==
    \E k \in DOMAIN candle_tensors : starts_with(k, "lora_llama")

\* candle_tensors.keys().any(|k| k.starts_with("lora_llama."))
has_llama_tensors(candle_tensors) ==
    \E k \in DOMAIN candle_tensors : starts_with(k, "lora_llama.")

\* with_dummy_embeddings with the second insert left out
with_dummy_embeddings_a_only(candle_tensors, add_dummy_embeddings) ==
    IF add_dummy_embeddings /\ ~has_llama_tensors(candle_tensors)
    THEN insert(candle_tensors, "lora_llama.a0.weight", zeros(<<rank, vocab_size>>))
    ELSE candle_tensors

\* the block `if add_dummy_embeddings { ... }`
with_dummy_embeddings(candle_tensors, add_dummy_embeddings) ==
    IF add_dummy_embeddings /\ ~has_llama_tensors(candle_tensors)
    THEN insert(insert(candle_tensors,
                       "lora_llama.a0.weight", zeros(<<rank, vocab_size>>)),
                "lora_llama.b0.weight", zeros(<<hidden_size, rank>>))
    ELSE candle_tensors

\* convert_peft_to_candle_lora_typed: candle_tensors as it is saved
typed_candle_tensors(pairs, add_dummy_embeddings) ==
    with_dummy_embeddings(grouped_candle_tensors(pairs), add_dummy_embeddings)

-----------------------------------------------------------------------------
(* The file system and the calls *)

AdapterModel == "adapter_model.safetensors"
AdapterAlt == "adapter.safetensors"
AdapterConfig == "adapter_config.json"

FileNames == {AdapterModel, AdapterAlt, AdapterConfig}

\* the keys a source checkpoint is drawn from: two attention pairs, a head
\* pair, a block pair, a key with .lora_A.weight inside it, and a key with
\* neither suffix; a subset need not hold both keys of a pair
KeyUniverse ==
    { "l0.self_attn.q_proj.lora_A.weight", "l0.self_attn.q_proj.lora_B.weight",
      "l1.self_attn.q_proj.lora_A.weight", "l1.self_attn.q_proj.lora_B.weight",
      "lm_head.lora_A.weight", "lm_head.lora_B.weight",
      "l0.mlp.up.lora_A.weight", "l0.mlp.up.lora_B.weight",
      "l0.mlp.lora_A.weight.up", "l0.norm.weight" }

Checkpoint(keys) == [k \in keys |-> SourceTensor(k)]

Sources == {Checkpoint(keys) : keys \in {K \in SUBSET KeyUniverse : Cardinality(K) <= MaxKeys}}

DirSources == {Checkpoint(keys) : keys \in {K \in SUBSET KeyUniverse : Cardinality(K) <= MaxDirKeys}}

\* what adapter.safetensors holds when the directory has it
AltCheckpoint == Checkpoint({"lm_head.lora_A.weight", "lm_head.lora_B.weight"})

\* what the output path holds when a file is there before the call
StaleCheckpoint == [k \in {"stale.weight"} |-> SourceTensor(k)]

\* the prefixes the untyped conversion is called with
Prefixes == {"lora_llama", "p"}

\* every order in which a HashMap with these keys can yield them
RECURSIVE Orders(_)
Orders(keys) ==
    IF keys = {} THEN {<<>>}
    ELSE UNION {{<<k>> \o o : o \in Orders(keys \ {k})} : k \in keys}

NoCall == [fn |-> "none", path |-> "", prefix |-> "", add_dummy_embeddings |-> FALSE,
           order |-> <<>>]

NoResult == [tag |-> "none", msg |-> ""]
Ok == [tag |-> "Ok", msg |-> ""]
Err(msg) == [tag |-> "Err", msg |-> msg]

\* safetensors::load fails on a path that holds no checkpoint
LoadError == Err("load")

NoAdapterWeights ==
    Err("No adapter weights found (tried adapter_model.safetensors and adapter.safetensors)")

\* weights_path of the two directory entry points, NoPath when the function
\* returns the error instead
NoPath == ""

\* weights_path without the second exists() test
weights_path_no_second_test(dir) ==
    IF dir[AdapterModel].exists THEN AdapterModel ELSE AdapterAlt

weights_path(dir) ==
    IF dir[AdapterModel].exists THEN AdapterModel
    ELSE IF dir[AdapterAlt].exists THEN AdapterAlt
    ELSE NoPath

\* convert_peft_to_candle_lora(peft_path, output_path, prefix, device), the
\* HashMap yielding its keys in `order`
Untyped(fn, peft_path, prefix, order) ==
    LET pairs == untyped_lora_pairs(files[peft_path].tensors, order)
    IN  /\ call' = [fn |-> fn, path |-> peft_path, prefix |-> prefix,
                    add_dummy_embeddings |-> FALSE, order |-> order]
        /\ loaded' = Append(loaded, peft_path)
        /\ lora_pairs' = pairs
        /\ output' = File(untyped_candle_tensors(pairs, prefix))
        /\ result' = Ok
        /\ UNCHANGED <<files, layer_name, prefix_type>>

\* convert_peft_to_candle_lora_typed(peft_path, output_path, device,
\* add_dummy_embeddings), the HashMap yielding its keys in `order`
Typed(fn, peft_path, add_dummy_embeddings, order) ==
    LET pairs == typed_lora_pairs(files[peft_path].tensors, order)
    IN  /\ call' = [fn |-> fn, path |-> peft_path, prefix |-> "",
                    add_dummy_embeddings |-> add_dummy_embeddings, order |-> order]
        /\ loaded' = Append(loaded, peft_path)
        /\ lora_pairs' = pairs
        /\ output' = File(typed_candle_tensors(pairs, add_dummy_embeddings))
        /\ result' = Ok
        /\ UNCHANGED <<files, layer_name, prefix_type>>

\* a call that returns an error before anything is loaded or saved
Fail(fn, path, prefix, add_dummy_embeddings, err) ==
    /\ call' = [fn |-> fn, path |-> path, prefix |-> prefix,
                add_dummy_embeddings |-> add_dummy_embeddings, order |-> <<>>]
    /\ result' = err
    /\ UNCHANGED <<files, output, loaded, lora_pairs, layer_name, prefix_type>>

convert_peft_to_candle_lora ==
    \E peft_path \in {AdapterModel, AdapterAlt}, prefix \in Prefixes :
        /\ call = NoCall
        /\ IF ~files[peft_path].exists
           THEN Fail("convert_peft_to_candle_lora", peft_path, prefix, FALSE, LoadError)
           ELSE \E order \in Orders(DOMAIN files[peft_path].tensors) :
                    Untyped("convert_peft_to_candle_lora", peft_path, prefix, order)

convert_peft_to_candle_lora_typed ==
    \E peft_path \in {AdapterModel, AdapterAlt}, add_dummy_embeddings \in BOOLEAN :
        /\ call = NoCall
        /\ IF ~files[peft_path].exists
           THEN Fail("convert_peft_to_candle_lora_typed", peft_path, "",
                     add_dummy_embeddings, LoadError)
           ELSE \E order \in Orders(DOMAIN files[peft_path].tensors) :
                    Typed("convert_peft_to_candle_lora_typed", peft_path,
                          add_dummy_embeddings, order)

\* adapter_config.json is read and parsed when it is there and the outcome
\* is dropped: no branch of the two functions below depends on it
convert_peft_dir_to_candle_lora ==
    \E prefix \in Prefixes :
        /\ call = NoCall
        /\ IF weights_path(files) = NoPath
           THEN Fail("convert_peft_dir_to_candle_lora", NoPath, prefix, FALSE,
                     NoAdapterWeights)
           ELSE \E order \in Orders(DOMAIN files[weights_path(files)].tensors) :
                    Untyped("convert_peft_dir_to_candle_lora", weights_path(files),
                            prefix, order)

convert_peft_dir_to_candle_lora_typed ==
    \E add_dummy_embeddings \in BOOLEAN :
        /\ call = NoCall
        /\ IF weights_path(files) = NoPath
           THEN Fail("convert_peft_dir_to_candle_lora_typed", NoPath, "",
                     add_dummy_embeddings, NoAdapterWeights)
           ELSE \E order \in Orders(DOMAIN files[weights_path(files)].tensors) :
                    Typed("convert_peft_dir_to_candle_lora_typed", weights_path(files),
                          add_dummy_embeddings, order)

-----------------------------------------------------------------------------
(* The file entry points on one checkpoint file *)

Init ==
    /\ \E src \in Sources :
           files = [f \in FileNames |-> IF f = AdapterModel THEN File(src) ELSE NoFile]
    /\ output = NoFile
    /\ loaded = <<>>
    /\ call = NoCall
    /\ result = NoResult
    /\ lora_pairs = <<>>
    /\ layer_name = ""
    /\ prefix_type = "none"

Next ==
    \/ convert_peft_to_candle_lora
    \/ convert_peft_to_candle_lora_typed

Spec == Init /\ [][Next]_vars

-----------------------------------------------------------------------------
(* The directory entry points on a PEFT directory *)

InitDir ==
    /\ \E model \in {File(src) : src \in DirSources} \cup {NoFile},
          alt \in {File(AltCheckpoint), NoFile},
          config \in {TextFile("valid"), TextFile("malformed"), NoFile} :
           files = [f \in FileNames |->
                       IF f = AdapterModel THEN model
                       ELSE IF f = AdapterAlt THEN alt ELSE config]
    /\ output \in {NoFile, File(StaleCheckpoint)}
    /\ loaded = <<>>
    /\ call = NoCall
    /\ result = NoResult
    /\ lora_pairs = <<>>
    /\ layer_name = ""
    /\ prefix_type = "none"

NextDir ==
    \/ convert_peft_dir_to_candle_lora
    \/ convert_peft_dir_to_candle_lora_typed

SpecDir == InitDir /\ [][NextDir]_vars

-----------------------------------------------------------------------------
(* from_peft_layer_name on its own *)

\* the segments layer names are put together from
Segments ==
    {"layers", "mlp", "embed_tokens", "lm_head", "self_attn",
     "q_proj", "k_proj", "v_proj", "o_proj"}

RECURSIVE LayerNames(_)
LayerNames(n) ==
    IF n = 1 THEN Segments
    ELSE LayerNames(n - 1) \cup {s \o "." \o t : s \in LayerNames(n - 1), t \in Segments}

InitClassify ==
    /\ layer_name \in LayerNames(MaxSegments)
    /\ prefix_type = "none"
    /\ files = [f \in FileNames |-> NoFile]
    /\ output = NoFile
    /\ loaded = <<>>
    /\ call = NoCall
    /\ result = NoResult
    /\ lora_pairs = <<>>

Classify ==
    /\ prefix_type = "none"
    /\ prefix_type' = from_peft_layer_name(layer_name)
    /\ UNCHANGED <<files, output, loaded, call, result, lora_pairs, layer_name>>

NextClassify == Classify

SpecClassify == InitClassify /\ [][NextClassify]_vars

-----------------------------------------------------------------------------
(* What the properties speak of *)

LoraA == ".lora_A.weight"
LoraB == ".lora_B.weight"

EndsWith(s, suffix) ==
    Len(suffix) <= Len(s) /\ SubSeq(s, Len(s) - Len(suffix) + 1, Len(s)) = suffix

StripSuffix(s, suffix) == SubSeq(s, 1, Len(s) - Len(suffix))

\* the base names that have both their .lora_A.weight and their
\* .lora_B.weight key in a source mapping
MatchedBaseNames(tensors) ==
    {StripSuffix(k, LoraA) :
        k \in {a \in DOMAIN tensors :
                  /\ EndsWith(a, LoraA)
                  /\ (StripSuffix(a, LoraA) \o LoraB) \in DOMAIN tensors}}

\* a .lora_A.weight key without its .lora_B.weight key, or the reverse
Orphans(tensors) ==
    {k \in DOMAIN tensors :
        \/ EndsWith(k, LoraA) /\ (StripSuffix(k, LoraA) \o LoraB) \notin DOMAIN tensors
        \/ EndsWith(k, LoraB) /\ (StripSuffix(k, LoraB) \o LoraA) \notin DOMAIN tensors}

\* a set of names as the sequence in lexicographic order
RECURSIVE InOrder(_)
InOrder(names) ==
    IF names = {} THEN <<>>
    ELSE LET least == CHOOSE x \in names : \A y \in names \ {x} : cmp_less(x, y)
         IN  <<least>> \o InOrder(names \ {least})

OutName(prefix, factor, i) == prefix \o "." \o factor \o ToString(i) \o ".weight"

\* { prefix.a{i}.weight -> factor_a of p_i, prefix.b{i}.weight -> factor_b of
\* p_i }, p_0 .. p_{n-1} the matched pairs of `tensors` sorted by base name
NumberedMatchedPairs(tensors, prefix) ==
    LET bases == InOrder(MatchedBaseNames(tensors))
        idx == 0..(Len(bases) - 1)
        a_names == {OutName(prefix, "a", i) : i \in idx}
        b_names == {OutName(prefix, "b", i) : i \in idx}
    IN  [n \in a_names \cup b_names |->
            LET i == CHOOSE j \in idx : n \in {OutName(prefix, "a", j), OutName(prefix, "b", j)}
            IN  IF n \in a_names
                THEN tensors[bases[i + 1] \o LoraA]
                ELSE tensors[bases[i + 1] \o LoraB]]

UntypedDone ==
    call.fn \in {"convert_peft_to_candle_lora", "convert_peft_dir_to_candle_lora"}
    /\ result = Ok

TypedDone ==
    call.fn \in {"convert_peft_to_candle_lora_typed", "convert_peft_dir_to_candle_lora_typed"}
    /\ result = Ok

\* the source mapping of the call that ran, and the mapping it saved
Src == files[call.path].tensors
Out == output.tensors

IsPlaceholder(tensor) == tensor.data = "zeros"

\* what the call that ran saves for another source mapping and another
\* iteration order
Converted(tensors, order) ==
    IF UntypedDone
    THEN untyped_candle_tensors(untyped_lora_pairs(tensors, order), call.prefix)
    ELSE typed_candle_tensors(typed_lora_pairs(tensors, order), call.add_dummy_embeddings)

Restrict(tensors, keys) == [k \in keys |-> tensors[k]]

-----------------------------------------------------------------------------
(* C1 *)

\* C1: the untyped conversion saves exactly prefix.a{i}.weight -> factor_a and
\* prefix.b{i}.weight -> factor_b of the i-th matched pair of the source
\* mapping, the matched pairs taken in lexicographic order of base_name
C1_UntypedOutputIsNumberedMatchedPairs ==
    UntypedDone => Out = NumberedMatchedPairs(Src, call.prefix)

-----------------------------------------------------------------------------
(* C2 *)

\* C2: the saved mapping is the same for every order in which the source
\* mapping's keys are iterated, in the untyped and in the typed conversion
C2_SameOutputForEveryIterationOrder ==
    (UntypedDone \/ TypedDone) =>
        \A order \in Orders(DOMAIN Src) : Converted(Src, order) = Out

-----------------------------------------------------------------------------
(* C3 *)

\* C3: without dummy injection the number of emitted pairs is the number of
\* base names with both keys in the source, the output holds twice as many
\* distinct keys, and the pairs are at most half the source tensors
C3_PairCountIsMatchedBaseNames ==
    (UntypedDone \/ (TypedDone /\ ~call.add_dummy_embeddings)) =>
        LET n == Cardinality(MatchedBaseNames(Src))
        IN  /\ Len(lora_pairs) = n
            /\ Cardinality(DOMAIN Out) = 2 * n
            /\ 2 * Len(lora_pairs) <= Cardinality(DOMAIN Src)

-----------------------------------------------------------------------------
(* C4 *)

\* C4: an orphaned tensor is no value of the output, the output is the same
\* with any of the orphans taken out of the source, and the indices under a
\* prefix are a range from 0
C4_OrphansLeaveNoTrace ==
    (UntypedDone \/ TypedDone) =>
        /\ \A k \in Orphans(Src) : \A n \in DOMAIN Out : Out[n] # Src[k]
        /\ \A gone \in SUBSET Orphans(Src) :
               Converted(Restrict(Src, (DOMAIN Src) \ gone),
                         SelectSeq(call.order, LAMBDA k : k \notin gone)) = Out
        /\ \A prefix \in Prefixes \cup {as_str(c) : c \in CandleLoraPrefix} :
               \A i \in 1..Cardinality(DOMAIN Src) :
                   OutName(prefix, "a", i) \in DOMAIN Out
                       => OutName(prefix, "a", i - 1) \in DOMAIN Out

-----------------------------------------------------------------------------
(* C10 *)

\* C10: every pair is a key ending in .lora_A.weight, its base name that key
\* without the suffix, and the key base_name.lora_B.weight; a source key that
\* ends in neither suffix gives no tensor to the output; no two pairs have
\* the same base name
C10_PairsComeFromSuffixKeys ==
    (UntypedDone \/ TypedDone) =>
        /\ \A i \in 1..Len(lora_pairs) :
               LET base_name == lora_pairs[i][1]
               IN  /\ (base_name \o LoraA) \in DOMAIN Src
                   /\ (base_name \o LoraB) \in DOMAIN Src
                   /\ lora_pairs[i][2] = Src[base_name \o LoraA]
                   /\ lora_pairs[i][3] = Src[base_name \o LoraB]
        /\ \A k \in DOMAIN Src :
               ~EndsWith(k, LoraA) /\ ~EndsWith(k, LoraB)
                   => \A n \in DOMAIN Out : Out[n] # Src[k]
        /\ \A i, j \in 1..Len(lora_pairs) :
               i # j => lora_pairs[i][1] # lora_pairs[j][1]

-----------------------------------------------------------------------------
(* C1, C2, C3, C4 and C10 on sources whose keys have .lora_A.weight at their
   end only *)

SuffixOnly(tensors) ==
    \A k \in DOMAIN tensors :
        contains(k, LoraA) =>
            EndsWith(k, LoraA) /\ ~contains(StripSuffix(k, LoraA), LoraA)

OnSuffixKeys == (UntypedDone \/ TypedDone) /\ SuffixOnly(Src)

C1_OnSuffixKeys == OnSuffixKeys => C1_UntypedOutputIsNumberedMatchedPairs
C2_OnSuffixKeys == OnSuffixKeys => C2_SameOutputForEveryIterationOrder
C3_OnSuffixKeys == OnSuffixKeys => C3_PairCountIsMatchedBaseNames
C4_OnSuffixKeys == OnSuffixKeys => C4_OrphansLeaveNoTrace
C10_OnSuffixKeys == OnSuffixKeys => C10_PairsComeFromSuffixKeys

-----------------------------------------------------------------------------
(* C5 *)

\* the pairs of lora_pairs (by position) that are of one prefix type
ClassMembers(c) ==
    {i \in 1..Len(lora_pairs) : from_peft_layer_name(lora_pairs[i][1]) = c}

\* the saved names under a type's prefix that hold a source tensor
EmittedUnder(c) ==
    {n \in DOMAIN Out : starts_with(n, as_str(c) \o ".") /\ ~IsPlaceholder(Out[n])}

\* C5: in the typed conversion a prefix type with m pairs emits exactly the
\* indices 0 .. m-1 under its own prefix, whatever the other types hold (none
\* when m = 0), and the pairs are numbered in lexicographic order of base name
C5_EachClassCountsFromZero ==
    TypedDone =>
        /\ \A c \in CandleLoraPrefix :
               LET members == ClassMembers(c)
                   m == Cardinality(members)
               IN  /\ EmittedUnder(c) =
                          {OutName(as_str(c), "a", k) : k \in 0..(m - 1)}
                              \cup {OutName(as_str(c), "b", k) : k \in 0..(m - 1)}
                   /\ \E s \in Orders(members) :
                          /\ \A k \in 1..(m - 1) :
                                 ~cmp_less(lora_pairs[s[k + 1]][1], lora_pairs[s[k]][1])
                          /\ \A k \in 1..m :
                                 /\ Out[OutName(as_str(c), "a", k - 1)] = lora_pairs[s[k]][2]
                                 /\ Out[OutName(as_str(c), "b", k - 1)] = lora_pairs[s[k]][3]
        /\ \A n \in DOMAIN Out :
               \E c \in CandleLoraPrefix : starts_with(n, as_str(c) \o ".")

\* two types with one pair each, both numbered 0, and the third type empty
C5_Witness ==
    /\ TypedDone
    /\ Cardinality(ClassMembers(Llama)) = 1
    /\ Cardinality(ClassMembers(LlamaCsa)) = 1
    /\ ClassMembers(LlamaBlock) = {}
    /\ DOMAIN Out = {"lora_llama.a0.weight", "lora_llama.b0.weight",
                     "lora_llama_csa.a0.weight", "lora_llama_csa.b0.weight"}

-----------------------------------------------------------------------------
(* C6 *)

Placeholders == {n \in DOMAIN Out : IsPlaceholder(Out[n])}

\* C6: the typed conversion saves the zero-filled pair if and only if
\* add_dummy_embeddings is set and no pair is of type Llama (EmbeddingOrHead);
\* with such a pair lora_llama.a0.weight and lora_llama.b0.weight are that
\* pair's tensors whatever the flag
C6_DummyOnlyForEmptyEmbeddingClass ==
    TypedDone =>
        /\ Placeholders # {} <=> (call.add_dummy_embeddings /\ ClassMembers(Llama) = {})
        /\ Placeholders \in {{}, {"lora_llama.a0.weight", "lora_llama.b0.weight"}}
        /\ ClassMembers(Llama) # {} =>
               \E i \in ClassMembers(Llama) :
                   /\ Out["lora_llama.a0.weight"] = lora_pairs[i][2]
                   /\ Out["lora_llama.b0.weight"] = lora_pairs[i][3]

\* the flag set, attention and block pairs saved, none of type Llama, and
\* the placeholders inserted
C6_Witness ==
    /\ TypedDone
    /\ call.add_dummy_embeddings
    /\ ClassMembers(Llama) = {}
    /\ "lora_llama_csa.a0.weight" \in DOMAIN Out
    /\ "lora_llama_block.a0.weight" \in DOMAIN Out
    /\ Placeholders = {"lora_llama.a0.weight", "lora_llama.b0.weight"}

-----------------------------------------------------------------------------
(* C7 *)

\* C7: with no pair of type Llama, the typed output with the flag set is the
\* typed output without the flag plus exactly lora_llama.a0.weight and
\* lora_llama.b0.weight, both zero-filled; every other entry is the same
C7_DummyAddsExactlyTwoKeys ==
    (TypedDone /\ call.add_dummy_embeddings /\ ClassMembers(Llama) = {}) =>
        LET without == typed_candle_tensors(typed_lora_pairs(Src, call.order), FALSE)
            dummies == {"lora_llama.a0.weight", "lora_llama.b0.weight"}
        IN  /\ dummies \cap DOMAIN without = {}
            /\ DOMAIN Out = (DOMAIN without) \cup dummies
            /\ \A n \in dummies : IsPlaceholder(Out[n])
            /\ \A n \in DOMAIN without : Out[n] = without[n]

\* the flag set on a source of self_attn pairs only
C7_Witness ==
    /\ TypedDone
    /\ call.add_dummy_embeddings
    /\ ClassMembers(Llama) = {}
    /\ ClassMembers(LlamaBlock) = {}
    /\ Cardinality(ClassMembers(LlamaCsa)) = 2
    /\ Cardinality(DOMAIN Out) = 6

-----------------------------------------------------------------------------
(* C8 *)

\* C8: from_peft_layer_name gives every name exactly one type: Llama
\* (EmbeddingOrHead) when the name contains embed_tokens or lm_head, whatever
\* else it contains; otherwise LlamaCsa (Attention) when it contains self_attn
\* and one of q_proj, k_proj, v_proj, o_proj; otherwise LlamaBlock
C8_ClassificationByFirstMatch ==
    prefix_type # "none" =>
        LET embedding == \/ contains(layer_name, "embed_tokens")
                         \/ contains(layer_name, "lm_head")
            projection == \E p \in {"q_proj", "k_proj", "v_proj", "o_proj"} :
                              contains(layer_name, p)
            attention == contains(layer_name, "self_attn") /\ projection
        IN  /\ prefix_type \in CandleLoraPrefix
            /\ embedding => prefix_type = Llama
            /\ (~embedding /\ attention) => prefix_type = LlamaCsa
            /\ (~embedding /\ ~attention) => prefix_type = LlamaBlock

\* a name with embed_tokens, self_attn and q_proj in it, classified Llama
C8_Witness ==
    /\ prefix_type = Llama
    /\ contains(layer_name, "embed_tokens")
    /\ contains(layer_name, "self_attn")
    /\ contains(layer_name, "q_proj")

-----------------------------------------------------------------------------
(* C9 *)

DirectoryEntryPoints ==
    {"convert_peft_dir_to_candle_lora", "convert_peft_dir_to_candle_lora_typed"}

NeitherAdapterFile == ~files[AdapterModel].exists /\ ~files[AdapterAlt].exists

\* C9: a directory entry point called on a directory with neither
\* adapter_model.safetensors nor adapter.safetensors returns an error that
\* names both files, loads no checkpoint and leaves the output path as it was
C9_MissingAdapterFileWritesNothing ==
    [][(call = NoCall /\ call'.fn \in DirectoryEntryPoints /\ NeitherAdapterFile) =>
          /\ result'.tag = "Err"
          /\ contains(result'.msg, AdapterModel)
          /\ contains(result'.msg, AdapterAlt)
          /\ loaded' = loaded
          /\ output' = output]_vars

\* the error returned with adapter_config.json present and a file at the
\* output path
C9_Witness ==
    /\ call.fn \in DirectoryEntryPoints
    /\ NeitherAdapterFile
    /\ files[AdapterConfig].exists
    /\ output.exists
    /\ result.tag = "Err"

====
